---- MODULE Spec2Model ----
(***************************************************************************)
(* Model of the job-hunting agent (src/job_hunt_agent_new.py) behind its   *)
(* HTTP layer (src/api_server.py).                                         *)
(*                                                                         *)
(* A Python str is a sequence of one-character strings; the fixed parts of *)
(* an f-string are single multi-character tokens.  A JSON / Python value   *)
(* is a record [t, s, l, n]: its type tag, its characters (a str), its     *)
(* items (a list of str) and its number (an int).                          *)
(***************************************************************************)
EXTENDS Integers, Sequences, FiniteSets, TLC

\* Longest list of records the extraction service returns in the model.
MaxPostings == 2

---------------------------------------------------------------------------
(* Python values *)

Val(t, s, l, n) == [t |-> t, s |-> s, l |-> l, n |-> n]
Missing == Val("missing", <<>>, <<>>, 0)
NoneV == Val("null", <<>>, <<>>, 0)
StrV(s) == Val("str", s, <<>>, 0)
IntV(n) == Val("int", <<>>, <<>>, n)
ListV(l) == Val("list", <<>>, l, 0)
\* A JSON list holding an item that is not a string, e.g. [1].
BadList == Val("badlist", <<>>, <<>>, 0)

\* dict.get(key): None when the key is absent.
Get(v) == IF v.t = "missing" THEN NoneV ELSE v

\* dict.get(key, default)
GetDefault(v, d) == IF v.t = "missing" THEN d ELSE v

\* Python truthiness, as `not x` tests it.
Truthy(v) ==
    CASE v.t = "str" -> v.s # <<>>
      [] v.t = "int" -> v.n # 0
      [] v.t = "list" -> v.l # <<>>
      [] v.t = "badlist" -> TRUE
      [] OTHER -> FALSE

---------------------------------------------------------------------------
(* str methods *)

UpperChars == <<"A", "B", "C", "D", "E", "F", "G", "H", "I", "J", "K", "L", "M",
                "N", "O", "P", "Q", "R", "S", "T", "U", "V", "W", "X", "Y", "Z">>
LowerChars == <<"a", "b", "c", "d", "e", "f", "g", "h", "i", "j", "k", "l", "m",
                "n", "o", "p", "q", "r", "s", "t", "u", "v", "w", "x", "y", "z">>

LowerChar(c) ==
    IF \E i \in DOMAIN UpperChars : UpperChars[i] = c
    THEN LowerChars[CHOOSE i \in DOMAIN UpperChars : UpperChars[i] = c]
    ELSE c

\* str.lower()
Lower(s) == [i \in DOMAIN s |-> LowerChar(s[i])]

\* str.replace(old, new) for one-character old and new.
Replace(s, old, new) == [i \in DOMAIN s |-> IF s[i] = old THEN new ELSE s[i]]

\* sep.join(items), sep a sequence of characters.
RECURSIVE Join(_, _)
Join(sep, items) ==
    IF items = <<>> THEN <<>>
    ELSE IF Len(items) = 1 THEN items[1]
    ELSE items[1] \o sep \o Join(sep, Tail(items))

\* iterating a str yields its characters, each a str of length one.
CharsOf(s) == [i \in DOMAIN s |-> <<s[i]>>]

\* value.lower().replace(" ", "-")
FormatTermCaseKept(s) == Replace(s, " ", "-")
FormatTerm(s) == Replace(Lower(s), " ", "-")

---------------------------------------------------------------------------
(* Exceptions *)

Exc(type, text) == [type |-> type, text |-> text]
NoExc == Exc("", "")

---------------------------------------------------------------------------
(* find_jobs: input formatting and URL construction *)

\* Lines 43-45 raise, outside the try block, when job_title or location has
\* no .lower() or skills cannot be joined.
FindJobsFormatError(job_title, location, skills) ==
    IF job_title.t # "str" THEN Exc("AttributeError", "no attribute 'lower'")
    ELSE IF location.t # "str" THEN Exc("AttributeError", "no attribute 'lower'")
    ELSE IF skills.t \notin {"list", "str"}
         THEN Exc("TypeError", "can only join an iterable of str")
    ELSE NoExc

\* ", ".join(skills); a str argument is joined character by character.
SkillsString(skills) ==
    Join(<<",", " ">>, IF skills.t = "str" THEN CharsOf(skills.s) ELSE skills.l)

FindJobsUrlsPerCountry(t, l) ==
    LET one == << <<"https://www.eurojobs.com/job-search/">> \o t \o <<"/">> \o l \o <<"/">> >>
    IN  one \o one \o one \o one \o one \o one \o one \o one \o one \o one \o one \o one
\* The eight search URLs, from the formatted title t and location l.
FindJobsUrls(t, l) ==
    << <<"https://www.linkedin.com/jobs/search/?keywords=">> \o t
           \o <<"&location=">> \o l \o <<"&geoId=101452733">>,
       <<"https://www.indeed.com/jobs?q=">> \o t \o <<"&l=">> \o l,
       <<"https://www.eurojobs.com/job-search/">> \o t \o <<"/">> \o l \o <<"/">>,
       <<"https://www.stepstone.de/en/job-search/">> \o t \o <<"/">> \o l \o <<"/">>,
       <<"https://www.monster.lu/en/jobs/search/?q=">> \o t \o <<"&where=">> \o l,
       <<"https://www.jobserve.com/gb/en/Job-Search/">>,
       <<"https://jobs.euractiv.com/search?keywords=">> \o t \o <<"&location=">> \o l,
       <<"https://ec.europa.eu/eures/portal/jv-se/home">> >>

\* The extraction params: the prompt's embedded values and the schema.
Params(op, subject, experience, skills_string, schema) ==
    [op |-> op, subject |-> subject, experience |-> experience,
     skills_string |-> skills_string, schema |-> schema]
NoParams == Params("", <<>>, NoneV, <<>>, "")

FindJobsParams(job_title, experience_years, skills) ==
    Params("find_jobs", job_title.s, experience_years, SkillsString(skills), "ExtractSchema")

---------------------------------------------------------------------------
(* get_industry_trends: URL construction *)

\* Line 121 raises, outside the try block, when job_category has no .replace().
TrendsFormatError(job_category) ==
    IF job_category.t # "str" THEN Exc("AttributeError", "no attribute 'replace'")
    ELSE NoExc

TrendsUrls(c) ==
    << <<"https://www.payscale.com/research/US/Job=">> \o Replace(c, " ", "_")
           \o <<"/Salary">>,
       <<"https://www.glassdoor.com/Salaries/">> \o Replace(Lower(c), " ", "-")
           \o <<"-salary-SRCH_KO0,", ToString(Len(c)), ".htm">> >>

TrendsParams(job_category) ==
    Params("get_industry_trends", job_category.s, NoneV, <<>>, "IndustryTrendsSchema")

---------------------------------------------------------------------------
(* The extraction service's answers *)

\* A value firecrawl.extract returns: its encoding ("dict", "typed" for an
\* object with a snapshot accessor, "json" for a JSON-encoded str), the
\* success flag, the data entry ("dict", "null", "missing"), whether data
\* holds the list key, and the records under it.
Response(enc, success, data, haskey, items) ==
    [enc |-> enc, success |-> success, data |-> data, haskey |-> haskey,
     items |-> items]
NoResponse == Response("", FALSE, "", FALSE, <<>>)

\* What a remote call did: raised exc, or returned resp / content.
Raises(text) ==
    [kind |-> "raised", exc |-> Exc("Exception", text), resp |-> NoResponse,
     content |-> ""]
ReturnsResponse(resp) ==
    [kind |-> "returned", exc |-> NoExc, resp |-> resp, content |-> ""]
ReturnsContent(content) ==
    [kind |-> "returned", exc |-> NoExc, resp |-> NoResponse, content |-> content]
NotCalled == [kind |-> "none", exc |-> NoExc, resp |-> NoResponse, content |-> ""]

\* A decoding step's outcome: the exception it raised, whether the success
\* branch was taken, and the records it found.
Decoded(exc, matched, records) == [exc |-> exc, matched |-> matched, records |-> records]

\* isinstance(raw_response, dict) and raw_response.get('success'), then
\* raw_response['data'].get(key, []).
Decode(raw) ==
    IF raw.enc = "dict" /\ raw.success
    THEN CASE raw.data = "missing" -> Decoded(Exc("KeyError", "'data'"), TRUE, <<>>)
           [] raw.data = "null" ->
                Decoded(Exc("AttributeError", "no attribute 'get'"), TRUE, <<>>)
           [] OTHER -> Decoded(NoExc, TRUE, IF raw.haskey THEN raw.items ELSE <<>>)
    ELSE Decoded(NoExc, FALSE, <<>>)

AlwaysAnalyze(records) == TRUE
\* `if not jobs: return ...` / `if not industries: return ...`
ShouldAnalyze(records) == records # <<>>

---------------------------------------------------------------------------
(* The analysis call *)

AnalysisPromptFirstOnly(op, subject, records) ==
    [op |-> op, subject |-> subject,
     records |-> IF records = <<>> THEN <<>> ELSE <<records[1]>>]
\* The analysis prompt: the records, and for trends the category.
AnalysisPrompt(op, subject, records) ==
    [op |-> op, subject |-> subject, records |-> records]
NoPrompt == AnalysisPrompt("", <<>>, <<>>)

---------------------------------------------------------------------------
(* Results *)

\* What a public operation hands back: a str (its text, classified by the
\* return statement that produced it), or an exception that left it.  A str
\* carries no payload: raw and jobs stay empty.
StrResult(status, text) ==
    [kind |-> "returned", status |-> status, text |-> text, raw |-> NoResponse,
     jobs |-> <<>>, exc |-> NoExc]
Raised(exc) ==
    [kind |-> "raised", status |-> "", text |-> <<>>, raw |-> NoResponse,
     jobs |-> <<>>, exc |-> exc]
NoResult ==
    [kind |-> "none", status |-> "", text |-> <<>>, raw |-> NoResponse,
     jobs |-> <<>>, exc |-> NoExc]

NoDataText(op, subject, matched) ==
    IF op = "find_jobs"
    THEN <<"No European job listings found matching your criteria. Try different search parameters.">>
    ELSE IF matched
         THEN <<"No industry trends available for ">> \o subject \o <<".">>
         ELSE <<"No industry trends data available for ">> \o subject \o <<".">>

NoDataResult(op, subject, matched) == StrResult("no_data", NoDataText(op, subject, matched))

ErrorPrefix(op) ==
    IF op = "find_jobs" THEN "An error occurred while searching for jobs: "
    ELSE "An error occurred while fetching industry trends: "

ErrorResultGeneric(op, exc) == StrResult("error", <<ErrorPrefix(op)>>)
ErrorResultAsNoData(op, exc) == NoDataResult(op, <<>>, TRUE)
\* except Exception as e: return f"...: {str(e)}"
ErrorResult(op, exc) == StrResult("error", <<ErrorPrefix(op), exc.text>>)

\* return analysis.content
OkResult(content) == StrResult("ok", <<content>>)

---------------------------------------------------------------------------
(* HTTP responses *)

Http(status, key, text) == [status |-> status, key |-> key, text |-> text]
NoHttp == Http(0, "", <<>>)
\* add_cors_headers(make_response())
OptionsResponse == Http(200, "", <<>>)
\* jsonify({"result": result})
JsonResult(result) == Http(200, "result", result.text)
\* jsonify({"error": str(e)}), 500
JsonError(exc) == Http(500, "error", <<exc.text>>)
\* jsonify({"error": "Missing ..."}), 400
JsonMissing(route) ==
    Http(400, "error",
         IF route = "/api/find-jobs" THEN <<"Missing job_title or location">>
         ELSE <<"Missing category">>)

FindJobsValidEither(data) == Truthy(Get(data.job_title)) \/ Truthy(Get(data.location))
\* not (not job_title or not location)
FindJobsValid(data) == Truthy(Get(data.job_title)) /\ Truthy(Get(data.location))
\* not (not category)
TrendsValid(data) == Truthy(Get(data.category))

---------------------------------------------------------------------------
(* Inputs *)

QALead == <<"Q", "A", " ", "L", "e", "a", "d">>
Germany == <<"G", "e", "r", "m", "a", "n", "y">>
India == <<"I", "N", "D", "I", "A">>
NewYork == <<"N", "e", "w", " ", "Y", "o", "r", "k">>
DataScience == <<"D", "a", "t", "a", " ", "S", "c", "i", "e", "n", "c", "e">>
Go == <<"G", "o">>
SQL == <<"S", "Q", "L">>

Titles == {Missing, StrV(<<>>), StrV(QALead), IntV(7)}
Locations == {Missing, StrV(<<>>), StrV(Germany), StrV(India), StrV(NewYork), IntV(5)}
Experiences == {Missing, IntV(3)}
SkillSets == {Missing, ListV(<<Go, SQL>>), StrV(Go), NoneV, BadList}
Categories == {Missing, StrV(<<>>), StrV(DataScience), IntV(3)}

Body(job_title, location, experience_years, skills, category) ==
    [job_title |-> job_title, location |-> location,
     experience_years |-> experience_years, skills |-> skills, category |-> category]
EmptyBody == Body(Missing, Missing, Missing, Missing, Missing)

Request(method, route, data) == [method |-> method, route |-> route, data |-> data]
NoRequest == Request("", "", EmptyBody)

Routes == {"/api/find-jobs", "/api/industry-trends"}

Requests ==
    {Request("OPTIONS", r, EmptyBody) : r \in Routes}
    \cup {Request("POST", "/api/find-jobs", Body(t, l, e, k, Missing)) :
             t \in Titles, l \in Locations, e \in Experiences, k \in SkillSets}
    \cup {Request("POST", "/api/industry-trends",
                  Body(Missing, Missing, Missing, Missing, c)) : c \in Categories}

\* The records the extraction service may return, and lists of them.
Records == {"r1", "r2"}
RecordLists == UNION {[1..n -> Records] : n \in 0..MaxPostings}

Responses ==
    {Response(enc, TRUE, "dict", TRUE, items) :
        enc \in {"dict", "typed", "json"}, items \in RecordLists}
    \cup {Response("dict", FALSE, "dict", TRUE, items) : items \in {<<>>, <<"r1">>}}
    \cup {Response("dict", TRUE, d, FALSE, <<>>) : d \in {"missing", "null", "dict"}}

ExtractionOutcomes ==
    {Raises(e) : e \in {"Connection timed out", "401 Unauthorized"}}
    \cup {ReturnsResponse(r) : r \in Responses}

AnalysisOutcomes ==
    {Raises(e) : e \in {"Rate limit exceeded"}}
    \cup {ReturnsContent(c) : c \in {"c1", "c2"}}

---------------------------------------------------------------------------
(* State *)

VARIABLES
    pc,            \* where the request being served is
    req,           \* the HTTP request
    invoked,       \* whether the handler called the agent
    args,          \* the arguments the agent was called with
    urls,          \* urls= of the extraction call
    params,        \* params= of the extraction call
    extraction,    \* what firecrawl.extract did
    jobs,          \* jobs / industries
    runInput,      \* what agent.run was called with
    analysis,      \* what agent.run did
    result,        \* what the agent's method handed back
    response,      \* the HTTP response
    extractCalls,  \* calls of firecrawl.extract in this request
    analyzeCalls,  \* calls of agent.run in this request
    agentUsed,     \* whether the shared agent has run a prompt before
    ref            \* an earlier request, kept to compare later ones with

vars == <<pc, req, invoked, args, urls, params, extraction, jobs, runInput,
          analysis, result, response, extractCalls, analyzeCalls, agentUsed, ref>>

locals == <<urls, params, extraction, jobs, runInput, analysis>>

Args(op, job_title, location, experience_years, skills, job_category) ==
    [op |-> op, job_title |-> job_title, location |-> location,
     experience_years |-> experience_years, skills |-> skills,
     job_category |-> job_category]
NoArgs == Args("", NoneV, NoneV, NoneV, NoneV, NoneV)

AgentRunInputWithHistory(prompt) == [prompt |-> prompt, history |-> agentUsed]
\* self.agent.run(prompt): the agent is built without history, so a run is
\* given the prompt alone.
AgentRunInput(prompt) == [prompt |-> prompt, history |-> FALSE]
NoRunInput == [prompt |-> NoPrompt, history |-> FALSE]

\* The reference request: set once by Snapshot; fresh while the request
\* being served is still the one snapshotted; between once a different
\* request has been served after it.
NoRef ==
    [set |-> FALSE, fresh |-> FALSE, between |-> FALSE, req |-> NoRequest,
     urls |-> <<>>, params |-> NoParams, extraction |-> NotCalled,
     runInput |-> NoRunInput, analysis |-> NotCalled,
     result |-> NoResult, response |-> NoHttp]

Init ==
    /\ pc = "idle"
    /\ req = NoRequest
    /\ invoked = FALSE
    /\ args = NoArgs
    /\ urls = <<>>
    /\ params = NoParams
    /\ extraction = NotCalled
    /\ jobs = <<>>
    /\ runInput = NoRunInput
    /\ analysis = NotCalled
    /\ result = NoResult
    /\ response = NoHttp
    /\ extractCalls = 0
    /\ analyzeCalls = 0
    /\ agentUsed = FALSE
    /\ ref = NoRef

---------------------------------------------------------------------------
(* The HTTP handlers, up to the call of the agent *)

\* A new request starts with a fresh frame: nothing of the last one is kept.
NewFrame(r) ==
    /\ pc \in {"idle", "responded"}
    /\ req' = r
    /\ urls' = <<>>
    /\ params' = NoParams
    /\ extraction' = NotCalled
    /\ jobs' = <<>>
    /\ runInput' = NoRunInput
    /\ analysis' = NotCalled
    /\ result' = NoResult
    /\ extractCalls' = 0
    /\ analyzeCalls' = 0
    /\ ref' = IF ref.set
              THEN [ref EXCEPT !.fresh = FALSE,
                               !.between = @ \/ (~ref.fresh /\ req # ref.req)]
              ELSE ref
    /\ UNCHANGED agentUsed

Valid(r) ==
    IF r.route = "/api/find-jobs" THEN FindJobsValid(r.data) ELSE TrendsValid(r.data)

\* The arguments the handler calls the agent with.
CallArgs(r) ==
    IF r.route = "/api/find-jobs"
    THEN Args("find_jobs", Get(r.data.job_title), Get(r.data.location),
              GetDefault(r.data.experience_years, IntV(0)),
              GetDefault(r.data.skills, ListV(<<>>)), NoneV)
    ELSE Args("get_industry_trends", NoneV, NoneV, NoneV, NoneV, Get(r.data.category))

\* if request.method == "OPTIONS": return add_cors_headers(make_response())
ReceiveOptions(r) ==
    /\ r.method = "OPTIONS"
    /\ NewFrame(r)
    /\ invoked' = FALSE
    /\ args' = NoArgs
    /\ response' = OptionsResponse
    /\ pc' = "responded"

\* A POST lacking a required field: 400, the agent is not called.
ReceiveInvalid(r) ==
    /\ r.method = "POST"
    /\ ~Valid(r)
    /\ NewFrame(r)
    /\ invoked' = FALSE
    /\ args' = NoArgs
    /\ response' = JsonMissing(r.route)
    /\ pc' = "responded"

\* A POST with its required fields: the handler calls the agent.
ReceiveValid(r) ==
    /\ r.method = "POST"
    /\ Valid(r)
    /\ NewFrame(r)
    /\ invoked' = TRUE
    /\ args' = CallArgs(r)
    /\ response' = NoHttp
    /\ pc' = "in_agent"

---------------------------------------------------------------------------
(* The agent's methods *)

FormatError ==
    IF args.op = "find_jobs"
    THEN FindJobsFormatError(args.job_title, args.location, args.skills)
    ELSE TrendsFormatError(args.job_category)

\* The text a prompt or message embeds: the job title or the category.
Subject == IF args.op = "find_jobs" THEN <<>> ELSE args.job_category.s

\* The method returns res and the handler answers with it.
Finish(res) ==
    /\ result' = res
    /\ response' = JsonResult(res)
    /\ pc' = "responded"

\* Formatting raises before the try block is entered: the exception leaves
\* the method and the handler answers 500.
PrepareRaises ==
    /\ pc = "in_agent"
    /\ FormatError # NoExc
    /\ result' = Raised(FormatError)
    /\ response' = JsonError(FormatError)
    /\ pc' = "responded"
    /\ UNCHANGED <<req, invoked, args, locals, extractCalls, analyzeCalls,
                   agentUsed, ref>>

\* The URLs and params are built and firecrawl.extract is called.
PrepareCalls ==
    /\ pc = "in_agent"
    /\ FormatError = NoExc
    /\ urls' = IF args.op = "find_jobs"
               THEN FindJobsUrls(FormatTerm(args.job_title.s), FormatTerm(args.location.s))
               ELSE TrendsUrls(args.job_category.s)
    /\ params' = IF args.op = "find_jobs"
                 THEN FindJobsParams(args.job_title, args.experience_years, args.skills)
                 ELSE TrendsParams(args.job_category)
    /\ extractCalls' = extractCalls + 1
    /\ pc' = "extracting"
    /\ UNCHANGED <<req, invoked, args, extraction, jobs, runInput, analysis,
                   result, response, analyzeCalls, agentUsed, ref>>

\* A deterministic backend answers a call it has answered before in the
\* same way.
ExtractionConsistent(o) ==
    (ref.set /\ ref.extraction.kind # "none" /\ ref.urls = urls /\ ref.params = params)
        => o = ref.extraction

AnalysisConsistent(o) ==
    (ref.set /\ ref.analysis.kind # "none" /\ ref.runInput = runInput)
        => o = ref.analysis

\* firecrawl.extract raises: the except clause returns the error text.
ExtractionRaises(o) ==
    /\ pc = "extracting"
    /\ o.kind = "raised"
    /\ ExtractionConsistent(o)
    /\ extraction' = o
    /\ Finish(ErrorResult(args.op, o.exc))
    /\ UNCHANGED <<req, invoked, args, urls, params, jobs, runInput, analysis,
                   extractCalls, analyzeCalls, agentUsed, ref>>

\* firecrawl.extract returns and reading the response raises.
ExtractionUndecodable(o) ==
    /\ pc = "extracting"
    /\ o.kind = "returned"
    /\ ExtractionConsistent(o)
    /\ Decode(o.resp).exc # NoExc
    /\ extraction' = o
    /\ Finish(ErrorResult(args.op, Decode(o.resp).exc))
    /\ UNCHANGED <<req, invoked, args, urls, params, jobs, runInput, analysis,
                   extractCalls, analyzeCalls, agentUsed, ref>>

\* Whether the method goes on to the analysis call with these records.
GoesOn(d) ==
    /\ args.op = "get_industry_trends" => d.matched
    /\ ShouldAnalyze(d.records)

\* firecrawl.extract returns and nothing is left to analyse.
ExtractionNoData(o) ==
    /\ pc = "extracting"
    /\ o.kind = "returned"
    /\ ExtractionConsistent(o)
    /\ Decode(o.resp).exc = NoExc
    /\ ~GoesOn(Decode(o.resp))
    /\ extraction' = o
    /\ jobs' = Decode(o.resp).records
    /\ Finish(NoDataResult(args.op, Subject, Decode(o.resp).matched))
    /\ UNCHANGED <<req, invoked, args, urls, params, runInput, analysis,
                   extractCalls, analyzeCalls, agentUsed, ref>>

\* firecrawl.extract returns records and agent.run is called with them.
ExtractionAnalyze(o) ==
    /\ pc = "extracting"
    /\ o.kind = "returned"
    /\ ExtractionConsistent(o)
    /\ Decode(o.resp).exc = NoExc
    /\ GoesOn(Decode(o.resp))
    /\ extraction' = o
    /\ jobs' = Decode(o.resp).records
    /\ runInput' = AgentRunInput(AnalysisPrompt(args.op, Subject, Decode(o.resp).records))
    /\ analyzeCalls' = analyzeCalls + 1
    /\ agentUsed' = TRUE
    /\ pc' = "analyzing"
    /\ UNCHANGED <<req, invoked, args, urls, params, analysis, result, response,
                   extractCalls, ref>>

\* agent.run raises: the except clause returns the error text.
AnalysisRaises(o) ==
    /\ pc = "analyzing"
    /\ o.kind = "raised"
    /\ AnalysisConsistent(o)
    /\ analysis' = o
    /\ Finish(ErrorResult(args.op, o.exc))
    /\ UNCHANGED <<req, invoked, args, urls, params, extraction, jobs, runInput,
                   extractCalls, analyzeCalls, agentUsed, ref>>

\* agent.run returns: return analysis.content
AnalysisReturns(o) ==
    /\ pc = "analyzing"
    /\ o.kind = "returned"
    /\ AnalysisConsistent(o)
    /\ analysis' = o
    /\ Finish(OkResult(o.content))
    /\ UNCHANGED <<req, invoked, args, urls, params, extraction, jobs, runInput,
                   extractCalls, analyzeCalls, agentUsed, ref>>

\* Keep the request just served as the one later requests are compared with.
Snapshot ==
    /\ pc = "responded"
    /\ ~ref.set
    /\ ref' = [set |-> TRUE, fresh |-> TRUE, between |-> FALSE, req |-> req,
               urls |-> urls, params |-> params, extraction |-> extraction,
               runInput |-> runInput, analysis |-> analysis, result |-> result,
               response |-> response]
    /\ UNCHANGED <<pc, req, invoked, args, locals, result, response,
                   extractCalls, analyzeCalls, agentUsed>>

---------------------------------------------------------------------------
(* Specifications *)

Next ==
    \/ \E r \in Requests : ReceiveOptions(r)
    \/ \E r \in Requests : ReceiveInvalid(r)
    \/ \E r \in Requests : ReceiveValid(r)
    \/ PrepareRaises
    \/ PrepareCalls
    \/ \E o \in ExtractionOutcomes : ExtractionRaises(o)
    \/ \E o \in ExtractionOutcomes : ExtractionUndecodable(o)
    \/ \E o \in ExtractionOutcomes : ExtractionNoData(o)
    \/ \E o \in ExtractionOutcomes : ExtractionAnalyze(o)
    \/ \E o \in AnalysisOutcomes : AnalysisRaises(o)
    \/ \E o \in AnalysisOutcomes : AnalysisReturns(o)

\* Any requests, any behaviour of the two services.
Spec == Init /\ [][Next]_vars

\* Requests and answers of the deterministic backends.
DetRequests ==
    {Request("POST", "/api/find-jobs",
             Body(StrV(QALead), StrV(l), IntV(3), ListV(<<Go, SQL>>), Missing)) :
        l \in {Germany, India}}
    \cup {Request("POST", "/api/find-jobs",
                  Body(IntV(7), StrV(Germany), IntV(3), ListV(<<Go, SQL>>), Missing)),
          Request("POST", "/api/find-jobs",
                  Body(StrV(QALead), Missing, IntV(3), ListV(<<Go, SQL>>), Missing)),
          Request("POST", "/api/industry-trends",
                  Body(Missing, Missing, Missing, Missing, StrV(DataScience))),
          Request("OPTIONS", "/api/find-jobs", EmptyBody)}

DetExtractionOutcomes ==
    {Raises("Connection timed out"),
     ReturnsResponse(Response("dict", TRUE, "null", FALSE, <<>>)),
     ReturnsResponse(Response("typed", TRUE, "dict", TRUE, <<"r1">>))}
    \cup {ReturnsResponse(Response("dict", TRUE, "dict", TRUE, items)) :
             items \in {<<>>, <<"r1">>, <<"r1", "r2">>}}

NextDet ==
    \/ \E r \in DetRequests : ReceiveOptions(r)
    \/ \E r \in DetRequests : ReceiveInvalid(r)
    \/ \E r \in DetRequests : ReceiveValid(r)
    \/ PrepareRaises
    \/ PrepareCalls
    \/ \E o \in DetExtractionOutcomes : ExtractionRaises(o)
    \/ \E o \in DetExtractionOutcomes : ExtractionUndecodable(o)
    \/ \E o \in DetExtractionOutcomes : ExtractionNoData(o)
    \/ \E o \in DetExtractionOutcomes : ExtractionAnalyze(o)
    \/ \E o \in AnalysisOutcomes : AnalysisRaises(o)
    \/ \E o \in AnalysisOutcomes : AnalysisReturns(o)
    \/ Snapshot

\* Deterministic backends: a call repeated after the reference request gets
\* the answer the reference request got.
SpecDet == Init /\ [][NextDet]_vars

---------------------------------------------------------------------------
(* Location routing as the specification describes it *)

Contains(s, sub) ==
    \E i \in 0..(Len(s) - Len(sub)) : SubSeq(s, i + 1, i + Len(sub)) = sub

\* The region family of a location string: keywords matched
\* case-insensitively, multi-country regions first, generic when none matches.
RouteFamily(location) ==
    LET l == Lower(location)
    IN  CASE Contains(l, <<"s", "c", "a", "n", "d", "i", "n", "a", "v", "i", "a">>) ->
                "scandinavia"
          [] Contains(l, <<"e", "u", "r", "o", "p", "e">>) -> "europe"
          [] Contains(l, <<"i", "n", "d", "i", "a">>) -> "india"
          [] Contains(l, <<"u", "s", "a">>) -> "usa"
          [] Contains(l, <<"u", "n", "i", "t", "e", "d", " ", "s", "t", "a", "t", "e", "s">>) ->
                "usa"
          [] Contains(l, <<"g", "e", "r", "m", "a", "n", "y">>) -> "europe"
          [] Contains(l, <<"f", "r", "a", "n", "c", "e">>) -> "europe"
          [] OTHER -> "generic"

\* The region family a job board of FindJobsUrls serves.
BoardFamily(url) ==
    IF url[1] \in {"https://www.linkedin.com/jobs/search/?keywords=",
                   "https://www.indeed.com/jobs?q="}
    THEN "generic"
    ELSE "europe"

---------------------------------------------------------------------------
(* Claims *)

Done == pc = "responded"
Returned == result.kind = "returned"
InText(t) == \E i \in DOMAIN result.text : result.text[i] = t

\* C1 (as claimed): no exception crosses the boundary of find_jobs or
\* get_industry_trends; every request that reaches the agent ends in a
\* returned result.
C1_NoExceptionEscapes == result.kind # "raised"

\* C2: when the extraction call or the analysis call raises, the request
\* ends with an error result whose message contains the exception's text;
\* each service is called at most once per request, and the analysis
\* service is not called after a failed extraction.
C2_RemoteFailureReported ==
    /\ extractCalls <= 1
    /\ analyzeCalls <= 1
    /\ extraction.kind = "raised" => analyzeCalls = 0 /\ analysis.kind = "none"
    /\ (Done /\ extraction.kind = "raised") =>
           Returned /\ result.status = "error" /\ InText(extraction.exc.text)
    /\ (Done /\ analysis.kind = "raised") =>
           Returned /\ result.status = "error" /\ InText(analysis.exc.text)

C2_Witness ==
    /\ Done
    /\ analysis.kind = "raised"
    /\ extraction.kind = "returned"
    /\ result.status = "error"

\* C3: the analysis service is called only after the extraction call has
\* returned and only with a non-empty list of records; a request whose
\* extraction yields no records ends without an analysis call; nothing is
\* returned before the remote calls in progress have ended.
C3_AnalysisAfterNonEmptyExtraction ==
    /\ analyzeCalls > 0 =>
           /\ extractCalls = 1
           /\ extraction.kind = "returned"
           /\ jobs # <<>>
           /\ runInput.prompt.records # <<>>
    /\ pc = "extracting" =>
           urls # <<>> /\ extraction.kind = "none" /\ analyzeCalls = 0 /\ ~Returned
    /\ pc = "analyzing" => ~Returned
    /\ (Done /\ extraction.kind = "returned" /\ jobs = <<>>) => analyzeCalls = 0

C3_Witness ==
    /\ Done
    /\ extraction.kind = "returned"
    /\ extraction.resp.enc = "dict"
    /\ extraction.resp.success
    /\ jobs = <<>>
    /\ result.status = "no_data"
    /\ analyzeCalls = 0

\* C4 (as claimed): for every completed request the list of extracted
\* postings is empty if and only if the status is no_data or error.
C4_EmptyIffNoDataOrError ==
    (Done /\ Returned) => (jobs = <<>> <=> result.status \in {"no_data", "error"})

\* Whether an exception was raised inside the try block.
RaisedInTry ==
    \/ extraction.kind = "raised"
    \/ extraction.kind = "returned" /\ Decode(extraction.resp).exc # NoExc
    \/ analysis.kind = "raised"

\* C4 (amended): an empty posting list ends in no_data or error and ok is
\* returned only with a non-empty list; no_data is returned exactly when the
\* list is empty and nothing raised, error exactly when something raised,
\* and the list is non-empty under error exactly when the analysis call
\* raised.
C4_StatusAndPostings ==
    (Done /\ Returned) =>
        /\ result.status \in {"ok", "no_data", "error"}
        /\ jobs = <<>> => result.status \in {"no_data", "error"}
        /\ result.status = "ok" <=> (jobs # <<>> /\ analysis.kind = "returned")
        /\ result.status = "no_data" <=> (jobs = <<>> /\ ~RaisedInTry)
        /\ result.status = "error" <=> RaisedInTry
        /\ (result.status = "error" /\ jobs # <<>>) <=> analysis.kind = "raised"

C4_Witness ==
    /\ Done
    /\ result.status = "error"
    /\ jobs # <<>>
    /\ analysis.kind = "raised"

\* A response carrying its records in the place its encoding gives them.
WellFormed(resp) == resp.success /\ resp.data = "dict" /\ resp.haskey

\* C5 (as claimed): N well-formed postings returned in any of the three
\* encodings give a normalized list of the same N postings in the same
\* order, and a response with postings never ends in no_data.
C5_AllEncodingsNormalized ==
    (pc \in {"analyzing", "responded"} /\ extraction.kind = "returned"
        /\ WellFormed(extraction.resp)) =>
        /\ jobs = extraction.resp.items
        /\ (Done /\ extraction.resp.items # <<>>) => result.status # "no_data"

\* C6: the list of URLs of one extraction call never has more than 10
\* entries.
C6_UrlCap == Len(urls) <= 10

C6_Witness ==
    /\ pc = "extracting"
    /\ extractCalls = 1
    /\ args.op = "find_jobs"
    /\ Len(urls) = 8

C9_SameCriteriaSameResult ==
    (Done /\ ref.set /\ req = ref.req) =>
        result = ref.result /\ response = ref.response

C9_Witness ==
    /\ Done
    /\ ref.set
    /\ ~ref.fresh
    /\ ref.between
    /\ req = ref.req
    /\ req.route = "/api/find-jobs"
    /\ result.status = "ok"

\* A field that is missing or empty.
Absent(v) == v.t = "missing" \/ (v.t = "str" /\ v.s = <<>>)

BadPost ==
    /\ req.method = "POST"
    /\ \/ req.route = "/api/find-jobs"
          /\ (Absent(req.data.job_title) \/ Absent(req.data.location))
       \/ req.route = "/api/industry-trends" /\ Absent(req.data.category)

====
